---- MODULE Spec2Model ----
(***************************************************************************)
(* GapLens multi-agent workflow: one run of MultiAgentWorkflow.run over    *)
(* the LangGraph graph perception -> orchestrator -> {analysis, decision,  *)
(* END}, the SessionMemory log the stages write, and the LongTermMemory    *)
(* save/load of that session.                                              *)
(*                                                                         *)
(* Texts are modelled by representative documents (a JSON document that    *)
(* passes the schema, one that fails it, prose, the empty string, ...);    *)
(* confidences are in tenths (0.8 is 8, 0.1 is 1).                          *)
(***************************************************************************)
EXTENDS Integers, Sequences, FiniteSets, TLC

VARIABLES
    pc,          \* position of the run: idle, a graph node, finishing, done, raised
    state,       \* the WorkflowState dict handed from node to node
    verbose,     \* the run's effective verbose flag
    session,     \* the run's SessionMemory (session_id, entries, session_data, ...)
    now,         \* the clock datetime.now() reads
    supersteps,  \* graph steps taken by workflow.invoke
    execs,       \* executions of each stage node in this run
    llmCalls,    \* llm.invoke calls made, per stage
    allRaised,   \* every llm.invoke of the run so far raised
    apiCalls,    \* direct add_entry / update_session_data calls by the caller
    storage,     \* the sessions directory: session_id -> persisted document
    saves,       \* save_session calls made by the run
    loaded,      \* the last load_session call and its outcome
    error,       \* the exception run raised to its caller, None if none
    llms,        \* the clients held by the module globals _perception_llm, ...
    used,        \* the clients the run's stages have called llm.invoke on
    other,       \* the SessionMemory of another run, NoSession if none
    got          \* per stage, what its last llm.invoke did: none, raised, empty, text

vars == <<pc, state, verbose, session, now, supersteps, execs, llmCalls,
          allRaised, apiCalls, storage, saves, loaded, error, llms, used, other, got>>

----------------------------------------------------------------------------
(* Python values *)

None == "None"

\* Python truthiness of a text-valued field: None and "" are falsy.
Truthy(v) == v # None /\ v # ""

\* A value that is not a str (a JSON number the model put where text belongs).
PyInt == "int:42"

IsStr(v) == v # PyInt /\ v # None

WhitespaceOnly == {"   "}

\* str.strip() on the model's texts.
Strip(s) == IF s \in WhitespaceOnly THEN "" ELSE s

RECURSIVE Concat(_)
Concat(seqs) == IF seqs = <<>> THEN <<>> ELSE Head(seqs) \o Concat(Tail(seqs))

IsPrefix(s, t) == Len(s) <= Len(t) /\ SubSeq(t, 1, Len(s)) = s

----------------------------------------------------------------------------
(* core/memory_system.py *)

\* ReasoningPattern members and their values.
ReasoningPatternMembers == {"REWOO", "REACT", "COT", "TOT", "AGENT"}

PatternValue(m) ==
    CASE m = "REWOO" -> "rewoo"
      [] m = "REACT" -> "react"
      [] m = "COT"   -> "cot"
      [] m = "TOT"   -> "tot"
      [] m = "AGENT" -> "agent"

\* ReasoningPattern(value): the member with that value; ValueError otherwise.
IsPatternValue(v) == \E m \in ReasoningPatternMembers : PatternValue(m) = v

ReasoningPatternOf(v) == CHOOSE m \in ReasoningPatternMembers : PatternValue(m) = v

SessionDataKeys ==
    {"intent", "entities", "normalized_question", "research_facts",
     "analysis", "decision", "current_step"}

\* Clock readings the model distinguishes within one second.
ReadsPerSecond == 3

\* strftime('%Y%m%d_%H%M%S') of the clock value t: the second t falls in.
Second(t) == (t + ReadsPerSecond - 1) \div ReadsPerSecond

\* SessionMemory.__init__ at clock value t.
NewSessionMemory(t) ==
    [ session_id   |-> <<"session", Second(t)>>,
      entries      |-> <<>>,
      session_data |-> [ intent |-> None, entities |-> <<>>,
                         normalized_question |-> None, research_facts |-> <<>>,
                         analysis |-> None, decision |-> None,
                         current_step |-> None ],
      created_at   |-> t,
      last_updated |-> t ]

\* The MemoryEntry add_entry builds for a session holding n entries.
MakeEntry(n, t, agent, content, pattern, steps, confidence, isError) ==
    [ id |-> <<agent, n, t>>, timestamp |-> t, agent |-> agent,
      content |-> content, reasoning_pattern |-> pattern,
      reasoning_steps |-> steps, confidence |-> confidence,
      metadata |-> [error |-> isError] ]

\* add_entry numbering every entry 0 instead of len(self.entries).
add_entry_unnumbered(s, t, agent, content, pattern, steps, confidence, isError) ==
    [ s EXCEPT
        !.entries = Append(@, MakeEntry(0, t, agent, content,
                                        pattern, steps, confidence, isError)),
        !.last_updated = t ]

\* add_entry inserting the new entry at the head of the list.
add_entry_at_head(s, t, agent, content, pattern, steps, confidence, isError) ==
    [ s EXCEPT
        !.entries = <<MakeEntry(Len(s.entries), t, agent, content,
                                pattern, steps, confidence, isError)>> \o @,
        !.last_updated = t ]

\* SessionMemory.add_entry.
add_entry(s, t, agent, content, pattern, steps, confidence, isError) ==
    [ s EXCEPT
        !.entries = Append(@, MakeEntry(Len(s.entries), t, agent, content,
                                        pattern, steps, confidence, isError)),
        !.last_updated = t ]

\* SessionMemory.update_session_data: keys outside session_data are ignored.
update_session_data(s, t, key, value) ==
    IF key \in SessionDataKeys
    THEN [ s EXCEPT !.session_data = [ @ EXCEPT ![key] = value ],
                    !.last_updated = t ]
    ELSE s

\* SessionMemory.get(key): session_data.get(key, None).
SessionGet(s, key) ==
    IF key \in DOMAIN s.session_data THEN s.session_data[key] ELSE None

----------------------------------------------------------------------------
(* The model client: llm.invoke(messages) returns a response or raises. *)

Raises == [raises |-> TRUE, content |-> ""]

Returns(c) == [raises |-> FALSE, content |-> c]

(* Representative perception responses *)
P_VALID    == "{intent: team_optimization, entities: {skills: [AWS]}, normalized_question: AWS gaps?, context, analysis_focus}"
P_PARTIAL  == "{intent: bogus}"
P_BLANK    == "{intent: '', normalized_question: ''}"
P_BADTYPE  == "{intent: bogus, normalized_question: 42}"
P_LIST     == "[1, 2]"
PROSE      == "I think we need AWS training."

PerceptionResponses == {"", "   ", P_VALID, P_PARTIAL, P_BLANK, P_BADTYPE, P_LIST, PROSE}

EmptyEntities ==
    [skills |-> <<>>, projects |-> <<>>, teams |-> <<>>, people |-> <<>>, timelines |-> <<>>]

EntityKeys == <<"skills", "projects", "teams", "people", "timelines">>

IntentValues ==
    {"skill_gap_analysis", "team_optimization", "upskilling_plan", "project_readiness"}

\* dict.get(key, default) on a parsed JSON object (a function on its keys).
Get(d, k, default) == IF k \in DOMAIN d THEN d[k] ELSE default

\* json.loads on the perception responses: ok, whether the value is an object,
\* and the object.
PerceptionJson(c) ==
    CASE c = P_VALID ->
           [ok |-> TRUE, isDict |-> TRUE,
            obj |-> [intent |-> "team_optimization",
                     entities |-> [EmptyEntities EXCEPT !.skills = <<"AWS">>],
                     normalized_question |-> "AWS gaps?",
                     context |-> "ctx", analysis_focus |-> "AWS skills gap analysis"]]
      [] c = P_PARTIAL ->
           [ok |-> TRUE, isDict |-> TRUE, obj |-> [intent |-> "bogus"]]
      [] c = P_BLANK ->
           [ok |-> TRUE, isDict |-> TRUE,
            obj |-> [intent |-> "", normalized_question |-> ""]]
      [] c = P_BADTYPE ->
           [ok |-> TRUE, isDict |-> TRUE,
            obj |-> [intent |-> "bogus", normalized_question |-> PyInt]]
      [] c = P_LIST ->
           [ok |-> TRUE, isDict |-> FALSE, obj |-> [intent |-> "list"]]
      [] OTHER ->
           [ok |-> FALSE, isDict |-> FALSE, obj |-> [intent |-> "none"]]

\* create_fallback_perception(user_input, llm_response).
create_fallback_perception(user_input) ==
    [ intent |-> "skill_gap_analysis",
      entities |-> EmptyEntities,
      normalized_question |-> Strip(user_input),
      context |-> "ctx",
      analysis_focus |-> "General skills analysis" ]

\* parse_json_with_fallbacks: the parsed value, or the fallback perception when no
\* strategy finds JSON in the text.
parse_json_with_fallbacks(content, user_input) ==
    IF PerceptionJson(content).ok
    THEN [isDict |-> PerceptionJson(content).isDict, obj |-> PerceptionJson(content).obj]
    ELSE [isDict |-> TRUE, obj |-> create_fallback_perception(user_input)]

\* The PerceptionOutput schema accepts the parsed value.
PerceptionSchemaOk(p) ==
    /\ p.isDict
    /\ {"intent", "entities", "normalized_question", "context", "analysis_focus"}
           \subseteq DOMAIN p.obj
    /\ p.obj.intent \in IntentValues
    /\ IsStr(p.obj.normalized_question) /\ Strip(p.obj.normalized_question) # ""
    /\ Strip(p.obj.analysis_focus) # ""

\* The "manual validation with safe defaults" record of perceive_input.
ManualPerception(obj, user_input) ==
    [ intent |-> Get(obj, "intent", "skill_gap_analysis"),
      entities |-> Get(obj, "entities", EmptyEntities),
      normalized_question |-> Get(obj, "normalized_question", user_input),
      context |-> Get(obj, "context", "ctx"),
      analysis_focus |-> Get(obj, "analysis_focus", "Analysis of") ]

QUESTION_PLAIN   == "What are our Python skill gaps?"
QUESTION_PROJECT == "Analyze the skill gaps for this specific project. Project ID: proj_005"
SIMPLIFIED       == "Analyze skill gaps for project proj_005"

Questions == {"", "   ", QUESTION_PLAIN, QUESTION_PROJECT}

is_project_analysis(user_input) == user_input = QUESTION_PROJECT

PerceptionSteps == "perception steps"

\* The four update_session_data calls perceive_input makes after logging.
PerceptionSessionData(s, t, result, user_input) ==
    update_session_data(
      update_session_data(
        update_session_data(
          update_session_data(s, t, "intent", Get(result, "intent", "skill_gap_analysis")),
          t, "entities", Get(result, "entities", EmptyEntities)),
        t, "normalized_question", Get(result, "normalized_question", user_input)),
      t, "research_facts", <<>>)

\* perceive_input(user_input, llm, session_memory): the record returned, the
\* session memory after it, and whether llm.invoke was called.
perceive_input(question, r, s, t) ==
    IF ~Truthy(question) \/ Strip(question) = ""
    THEN LET res == create_fallback_perception("No input provided")
             s1  == add_entry(s, t, "perception", res, "REACT",
                              "Error: No user input provided", 1, TRUE)
             s2  == update_session_data(
                      update_session_data(
                        update_session_data(
                          update_session_data(s1, t, "intent", "skill_gap_analysis"),
                          t, "entities", res.entities),
                        t, "normalized_question", "No input provided"),
                      t, "research_facts", <<>>)
         IN  [result |-> res, memory |-> s2, invoked |-> FALSE]
    ELSE LET s0 == IF is_project_analysis(question)
                   THEN update_session_data(
                          update_session_data(
                            update_session_data(s, t, "project_id", "proj_005"),
                            t, "project_name", None),
                          t, "required_skills", <<>>)
                   ELSE s
             user_input == IF is_project_analysis(question) THEN SIMPLIFIED ELSE question
             content == Strip(r.content)
             parsed  == parse_json_with_fallbacks(content, user_input)
             \* the except branch: llm.invoke raised, or the manual validation
             \* called .get on a JSON value that is no object
             failed  == \/ r.raises
                        \/ content # "" /\ ~PerceptionSchemaOk(parsed) /\ ~parsed.isDict
             res == IF failed THEN create_fallback_perception(user_input)
                    ELSE IF content = "" THEN create_fallback_perception(user_input)
                    ELSE IF PerceptionSchemaOk(parsed)
                         THEN [parsed.obj EXCEPT
                                 !.normalized_question = Strip(@),
                                 !.analysis_focus = Strip(@)]
                    ELSE ManualPerception(parsed.obj, user_input)
             s1 == IF failed
                   THEN add_entry(s0, t, "perception", res, "REACT",
                                  "Error occurred during perception processing", 1, TRUE)
                   ELSE add_entry(s0, t, "perception", res, "REACT",
                                  PerceptionSteps, 8, FALSE)
         IN  [result |-> res,
              memory |-> PerceptionSessionData(s1, t, res, user_input),
              invoked |-> TRUE]

\* perceive_input(user_input, llm) with session_memory=None: reasoning_steps is
\* assigned only inside "if session_memory:", so the log_agent_reasoning call
\* after it raises UnboundLocalError on every path that reaches it, and the
\* except branch returns the fallback perception.
perceive_input_no_memory(question, r) ==
    IF ~Truthy(question) \/ Strip(question) = ""
    THEN create_fallback_perception("No input provided")
    ELSE LET user_input == IF is_project_analysis(question) THEN SIMPLIFIED ELSE question
             content == Strip(r.content)
             parsed  == parse_json_with_fallbacks(content, user_input)
             failed  == \/ r.raises
                        \/ content # "" /\ ~PerceptionSchemaOk(parsed) /\ ~parsed.isDict
             reasoning_steps_unbound == TRUE
             res == IF content = "" THEN create_fallback_perception(user_input)
                    ELSE IF PerceptionSchemaOk(parsed)
                         THEN [parsed.obj EXCEPT
                                 !.normalized_question = Strip(@),
                                 !.analysis_focus = Strip(@)]
                    ELSE ManualPerception(parsed.obj, user_input)
         IN  IF failed \/ reasoning_steps_unbound
             THEN create_fallback_perception(user_input)
             ELSE res

----------------------------------------------------------------------------
(* agents/analysis.py *)

A_VALID == "{skill_gaps: [AWS], upskilling: [], timeline_assessment: ok, success_probability: high}"

AnalysisResponses == {"", "   ", A_VALID, PROSE}

ANALYSIS_NO_QUESTION == "Error: No question provided for analysis"
ANALYSIS_ERROR       == "Error during analysis: <exception>"

AnalysisSteps == "analysis steps"

\* DataRouter (agents/router.py) has the four *_sync getters get_information uses
\* and no get_project_skill_gaps_sync: get_information_for_project raises
\* AttributeError on its first line.
RouterMethods ==
    {"get_employee_skills_sync", "get_project_requirements_sync",
     "get_team_composition_sync", "get_skill_market_data_sync"}

get_information_for_project_raises == "get_project_skill_gaps_sync" \notin RouterMethods

\* analyze_facts(normalized_question, llm, session_memory, project_id, scope):
\* the text returned (or an AttributeError escaping, for a question that is no
\* str), the session memory after it, and whether llm.invoke was called.
analyze_facts(nq, r, s, t, project_id) ==
    IF nq = PyInt
    THEN [escaped |-> TRUE, result |-> "", memory |-> s, invoked |-> FALSE]
    ELSE IF ~Truthy(nq) \/ Strip(nq) = ""
    THEN [escaped |-> FALSE, result |-> ANALYSIS_NO_QUESTION,
          memory |-> add_entry(s, t, "analysis", ANALYSIS_NO_QUESTION, "REACT",
                               "Error: No question provided for analysis", 1, TRUE),
          invoked |-> FALSE]
    ELSE IF Truthy(project_id) /\ get_information_for_project_raises
    THEN [escaped |-> FALSE, result |-> ANALYSIS_ERROR,
          memory |-> add_entry(s, t, "analysis", ANALYSIS_ERROR, "REACT",
                               "Error occurred during analysis phase", 1, TRUE),
          invoked |-> FALSE]
    ELSE IF r.raises
    THEN [escaped |-> FALSE, result |-> ANALYSIS_ERROR,
          memory |-> add_entry(s, t, "analysis", ANALYSIS_ERROR, "REACT",
                               "Error occurred during analysis phase", 1, TRUE),
          invoked |-> TRUE]
    ELSE LET analysis == Strip(r.content)
         IN  [escaped |-> FALSE, result |-> analysis,
              memory |-> update_session_data(
                           add_entry(s, t, "analysis", analysis, "REACT",
                                     AnalysisSteps, 8, FALSE),
                           t, "analysis", analysis),
              invoked |-> TRUE]

----------------------------------------------------------------------------
(* agents/base_agent.py and agents/decision.py *)

D_VALID    == "{natural_language_summary: upskill, selected_strategy: {..}, strategy_details: {..}}"
\* ~~~ stands for a markdown code fence.
D_FENCED   == "~~~json {natural_language_summary: upskill, selected_strategy: {..}, strategy_details: {..}} ~~~"
D_INVALID  == "{natural_language_summary: upskill}"
\* Prose around braces that hold no JSON, and prose around a document with a
\* trailing comma.
D_BRACES   == "Use {curly} braces"
D_TRAILING == "Here it is {natural_language_summary: upskill,} done"

DecisionResponses == {"", D_VALID, D_FENCED, D_INVALID, D_BRACES, D_TRAILING, PROSE}

\* What is left of D_BRACES and D_TRAILING between the first { and the last }.
D_CURLY         == "{curly}"
D_TRAILING_CUT  == "{natural_language_summary: upskill,}"

\* BaseAgent._get_fallback_json for the Decision agent.
DECISION_FALLBACK_JSON == "{natural_language_summary: Decision pending, selected_strategy: {strategy_name: TBD, ..}, ..}"

\* json.dumps(validated_decision.dict(), indent=2) of the documents that validate.
D_VALID_DUMPED    == "{natural_language_summary: upskill, selected_strategy: {..}, strategy_details: {..}, implementation_plan: null, ..}"
D_FALLBACK_DUMPED == "{natural_language_summary: Decision pending, selected_strategy: {strategy_name: TBD, ..}, .., success_factors: null, ..}"

\* DecisionAgent._create_fallback_decision.
D_CREATED_FALLBACK == "{natural_language_summary: Based on the analysis, we recommend upskilling strategy .., ..}"

DECISION_ERROR    == "Error during decision making: <exception>"
DECISION_LLM_ERROR == "Error in Decision LLM invocation: <exception>"

\* BaseAgent._get_fallback_json for the Perception and the Analysis agent.
PERCEPTION_FALLBACK_JSON ==
    [ intent |-> "skill_gap_analysis",
      entities |-> EmptyEntities,
      normalized_question |-> "General skills analysis",
      context |-> "ctx: no constraints, medium urgency, company scope",
      analysis_focus |-> "General skills analysis" ]

ANALYSIS_FALLBACK_JSON == "{skill_gaps: [], upskilling: [], .., timeline_assessment: Analysis pending, success_probability: low}"

\* BaseAgent._get_fallback_json by agent name.
get_fallback_json(name) ==
    CASE name = "perception" -> PERCEPTION_FALLBACK_JSON
      [] name = "analysis"   -> ANALYSIS_FALLBACK_JSON
      [] name = "decision"   -> DECISION_FALLBACK_JSON

\* BaseAgent._clean_json_string for the Decision agent: the JSON text found in
\* the response, re-serialised, or the fallback document.
clean_json_string(content) ==
    CASE content = ""        -> DECISION_FALLBACK_JSON
      [] content = D_VALID   -> D_VALID
      [] content = D_FENCED  -> D_VALID
      [] content = D_INVALID -> D_INVALID
      [] content = D_BRACES  -> D_CURLY
      [] content = D_TRAILING -> D_TRAILING_CUT
      [] OTHER               -> DECISION_FALLBACK_JSON

\* Texts json.loads accepts.
JsonTexts ==
    {A_VALID, D_VALID, D_INVALID, DECISION_FALLBACK_JSON, D_VALID_DUMPED,
     D_FALLBACK_DUMPED, D_CREATED_FALLBACK, P_VALID, P_PARTIAL, P_BLANK,
     P_BADTYPE, P_LIST}

ParsesAsJson(text) == text \in JsonTexts

\* BaseAgent._additional_json_cleaning: text outside the braces cut, quotes
\* unescaped, trailing commas removed.
additional_json_cleaning(content) ==
    IF content = D_TRAILING_CUT THEN D_INVALID ELSE content

\* _validate_and_clean_json returning the cleaned text without parsing it.
validate_and_clean_json_unparsed(content) == clean_json_string(content)

\* BaseAgent._validate_and_clean_json: the cleaned text when it parses (schema
\* failures are only reported), else the additionally cleaned text when that
\* parses, the fallback document otherwise.
validate_and_clean_json(content) ==
    IF ParsesAsJson(clean_json_string(content))
    THEN clean_json_string(content)
    ELSE IF ParsesAsJson(additional_json_cleaning(clean_json_string(content)))
    THEN additional_json_cleaning(clean_json_string(content))
    ELSE DECISION_FALLBACK_JSON

\* The DecisionOutput schema accepts the parsed text.
DecisionSchemaOk(text) == text \in {D_VALID, DECISION_FALLBACK_JSON}

DumpDecision(text) ==
    CASE text = D_VALID -> D_VALID_DUMPED
      [] text = DECISION_FALLBACK_JSON -> D_FALLBACK_DUMPED

\* _log_error_to_memory leaving the confidence at add_entry's default.
log_error_to_memory_default_confidence(s, t, name, pattern, error_msg) ==
    add_entry(s, t, name, error_msg, pattern, "Error occurred", 8, TRUE)

\* BaseAgent._log_error_to_memory.
log_error_to_memory(s, t, name, pattern, error_msg) ==
    add_entry(s, t, name, error_msg, pattern, "Error occurred", 1, TRUE)

\* BaseAgent._log_to_memory.
log_to_memory(s, t, name, pattern, content, steps) ==
    add_entry(s, t, name, content, pattern, steps, 8, FALSE)

\* BaseAgent.invoke_llm for the Decision agent: the content returned unless
\* llm.invoke raised, and the session memory after the logging.
invoke_llm(r, s, t) ==
    IF r.raises
    THEN [raised |-> TRUE, content |-> "",
          memory |-> log_error_to_memory(s, t, "Decision", "TOT", DECISION_LLM_ERROR)]
    ELSE [raised |-> FALSE, content |-> validate_and_clean_json(r.content),
          memory |-> log_to_memory(s, t, "Decision", "TOT",
                                   validate_and_clean_json(r.content), "response steps")]

\* DecisionAgent.process(question, analysis, llm, session_memory).
DecisionProcess(r, s, t) ==
    LET inv == invoke_llm(r, s, t)
    IN  IF inv.raised
        THEN [result |-> DECISION_ERROR,
              memory |-> add_entry(inv.memory, t, "decision", DECISION_ERROR, "TOT",
                                   "Error occurred during decision phase", 1, TRUE)]
        ELSE LET decision ==
                   IF ParsesAsJson(inv.content) /\ DecisionSchemaOk(inv.content)
                   THEN DumpDecision(inv.content)
                   ELSE D_CREATED_FALLBACK
             IN  [result |-> decision,
                  memory |-> update_session_data(
                               update_session_data(inv.memory, t, "decision", decision),
                               t, "current_step", "completed")]

----------------------------------------------------------------------------
(* agents/orchestrator.py and the routing of core/langgraph_workflow.py *)

\* OrchestratorAgent.process answering done as soon as an analysis exists.
OrchestratorProcess_analysis_only(st) ==
    IF ~Truthy(st.analysis) THEN "analysis" ELSE "done"

\* OrchestratorAgent.process looking at the decision field first.
OrchestratorProcess_decision_first(st) ==
    IF ~Truthy(st.decision) THEN "decision"
    ELSE IF ~Truthy(st.analysis) THEN "analysis"
    ELSE "done"

\* OrchestratorAgent.process(state, llm).
OrchestratorProcess(st) ==
    IF ~Truthy(st.analysis) THEN "analysis"
    ELSE IF ~Truthy(st.decision) THEN "decision"
    ELSE "done"

\* route_to_next_step without the fallback rule: a step that records no choice
\* sends the run to analysis.
route_to_next_step_no_fallback(st) ==
    CASE st.step = "orchestrator_decided_decision" -> "decision"
      [] st.step = "orchestrator_decided_done"     -> "done"
      [] OTHER                                     -> "analysis"

\* route_to_next_step(state): the choice recorded in step, else the fallback rule.
route_to_next_step(st) ==
    IF st.step \in {"orchestrator_decided_analysis", "orchestrator_decided_decision",
                    "orchestrator_decided_done"}
    THEN CASE st.step = "orchestrator_decided_analysis" -> "analysis"
           [] st.step = "orchestrator_decided_decision" -> "decision"
           [] st.step = "orchestrator_decided_done"     -> "done"
    ELSE IF ~Truthy(st.analysis) THEN "analysis"
    ELSE IF ~Truthy(st.decision) THEN "decision"
    ELSE "done"

----------------------------------------------------------------------------
(* core/memory_system.py: LongTermMemory *)

\* to_dict writing the enum member's name in place of its value.
EntryToDict_member_name(e) == e

\* MemoryEntry.to_dict: the enum member is replaced by its value.
EntryToDict(e) == [e EXCEPT !.reasoning_pattern = PatternValue(@)]

\* SessionMemory.to_dict.
SessionToDict(s) ==
    [ session_id   |-> s.session_id,
      created_at   |-> s.created_at,
      last_updated |-> s.last_updated,
      entries      |-> [i \in 1..Len(s.entries) |-> EntryToDict(s.entries[i])],
      session_data |-> s.session_data ]

\* LongTermMemory.save_session: the file <session_id>.json is (over)written.
save_session(store, s) ==
    {d \in store : d.session_id # s.session_id} \cup {SessionToDict(s)}

HasFile(store, sid) == \E d \in store : d.session_id = sid

FileOf(store, sid) == CHOOSE d \in store : d.session_id = sid

\* The MemoryEntry(...) construction of load_session raises ValueError.
EntryLoadRaises(ed) == ~IsPatternValue(ed.reasoning_pattern)

EntryFromDict(ed) == [ed EXCEPT !.reasoning_pattern = ReasoningPatternOf(@)]

\* LongTermMemory.load_session: None for a missing file and for any exception
\* while rebuilding the session; the rebuilt session otherwise.
load_session(store, sid) ==
    IF ~HasFile(store, sid)
    THEN [returned |-> "None", raised |-> FALSE, cause |-> "missing",
          session |-> NewSessionMemory(0)]
    ELSE LET data == FileOf(store, sid)
         IN  IF \E i \in 1..Len(data.entries) : EntryLoadRaises(data.entries[i])
             THEN [returned |-> "None", raised |-> FALSE, cause |-> "ValueError",
                   session |-> NewSessionMemory(0)]
             ELSE [returned |-> "session", raised |-> FALSE, cause |-> "none",
                   session |->
                     [ session_id   |-> data.session_id,
                       created_at   |-> data.created_at,
                       last_updated |-> data.last_updated,
                       entries      |-> [i \in 1..Len(data.entries) |->
                                           EntryFromDict(data.entries[i])],
                       session_data |-> data.session_data ]]

\* A session file written by another version of the program: one entry whose
\* reasoning_pattern is not a value of ReasoningPattern.
LegacyId == <<"session", 0>>

LegacyFile ==
    [ session_id   |-> LegacyId,
      created_at   |-> 0,
      last_updated |-> 0,
      entries      |-> << [EntryToDict(MakeEntry(0, 0, "perception",
                                                 create_fallback_perception(QUESTION_PLAIN),
                                                 "REACT", PerceptionSteps, 8, FALSE))
                            EXCEPT !.reasoning_pattern = "graph"] >>,
      session_data |-> NewSessionMemory(0).session_data ]

MissingId == <<"session", -1>>

----------------------------------------------------------------------------
(* core/workflow.py and the nodes of core/langgraph_workflow.py *)

\* config.WORKFLOW_VERBOSE
WORKFLOW_VERBOSE == FALSE

\* The graph steps workflow.invoke takes before it gives up with
\* GraphRecursionError (LangGraph's recursion_limit; 25 when, as here, invoke is
\* called without a config). The model uses a smaller limit.
RecursionLimit == 9

\* Calls the caller makes on the session besides the run (SpecApi only).
MaxApiCalls == 1

ProjectIds == {None, "proj_005", "invalid_project_id"}
Scopes     == {"company", "department"}
VerboseArgs == {None, "True", "False"}

Stages == {"perception", "analysis", "decision"}

\* The clients the run's workflow was created with, and those of another
\* workflow.
OwnClients   == "clients of this workflow"
OtherClients == "clients of another workflow"

NoSession == [NewSessionMemory(0) EXCEPT !.session_id = MissingId]

NoState ==
    [ question |-> "", intent |-> "", entities |-> <<>>, normalized_question |-> "",
      analysis |-> "", decision |-> "", step |-> "", project_id |-> None,
      scope |-> "company" ]

NotLoaded ==
    [call |-> MissingId,
     result |-> [returned |-> "None", raised |-> FALSE, cause |-> "not called",
                 session |-> NewSessionMemory(0)]]

\* What an llm.invoke call did: raised, returned nothing but whitespace, or
\* returned text.
Kind(r) ==
    IF r.raises THEN "raised"
    ELSE IF Strip(r.content) = "" THEN "empty"
    ELSE "text"

Outcomes(responses) == {Raises} \cup {Returns(c) : c \in responses}

ExecsTotal == execs["perception"] + execs["analysis"] + execs["decision"]

Init ==
    /\ pc = "idle"
    /\ state = NoState
    /\ verbose = WORKFLOW_VERBOSE
    /\ session = NoSession
    /\ now = 1
    /\ supersteps = 0
    /\ execs = [st \in Stages |-> 0]
    /\ llmCalls = [st \in Stages |-> 0]
    /\ allRaised = TRUE
    /\ apiCalls = 0
    /\ storage = {LegacyFile}
    /\ saves = 0
    /\ loaded = NotLoaded
    /\ error = None
    /\ llms = OwnClients
    /\ used = {}
    /\ other = NoSession
    /\ got = [st \in Stages |-> "none"]

\* MultiAgentWorkflow.run up to workflow.invoke: the session memory is created,
\* the project parameters are handed to update_session_data, the state is built.
RunStart(question, project_id, scope, v) ==
    /\ pc = "idle"
    /\ verbose' = (IF v = None THEN WORKFLOW_VERBOSE ELSE v = "True")
    /\ session' = IF Truthy(project_id)
                  THEN update_session_data(
                         update_session_data(NewSessionMemory(now), now,
                                             "project_id", project_id),
                         now, "scope", scope)
                  ELSE NewSessionMemory(now)
    /\ state' = [NoState EXCEPT !.question = question, !.project_id = project_id,
                                !.scope = scope]
    /\ pc' = "perception"
    /\ now' = now + 1
    /\ UNCHANGED <<supersteps, execs, llmCalls, allRaised, apiCalls, storage,
                   saves, loaded, error, llms, used, other, got>>

\* The bookkeeping every stage node shares: one more graph step, one more
\* execution of the stage, the clock, and the model calls.
StageRan(stage, invoked, r) ==
    /\ supersteps' = supersteps + 1
    /\ execs' = [execs EXCEPT ![stage] = @ + 1]
    /\ llmCalls' = [llmCalls EXCEPT ![stage] = IF invoked THEN @ + 1 ELSE @]
    /\ allRaised' = (allRaised /\ (invoked => r.raises))
    /\ now' = now + 1
    /\ used' = IF invoked THEN used \cup {llms} ELSE used
    /\ got' = [got EXCEPT ![stage] = IF invoked THEN Kind(r) ELSE "none"]
    /\ UNCHANGED <<verbose, apiCalls, storage, saves, loaded, llms, other>>

\* The step markers the stage nodes write.
CompleteStep(st) ==
    CASE st = "perception" -> "perception_complete"
      [] st = "analysis"   -> "analysis_complete"
      [] st = "decision"   -> "decision_complete"

ErrorStep(st) ==
    CASE st = "perception" -> "perception_error"
      [] st = "analysis"   -> "analysis_error"
      [] st = "decision"   -> "decision_error"

StageSteps(st) == {CompleteStep(st), ErrorStep(st)}

\* The state perception_node returns for the record perceive_input gave it.
PerceptionState(st, result) ==
    [st EXCEPT
       !.intent = Get(result, "intent", "skill_analysis"),
       !.entities = Concat([i \in 1..Len(EntityKeys) |->
                              result.entities[EntityKeys[i]]]),
       !.normalized_question = Get(result, "normalized_question", st.question),
       !.step = CompleteStep("perception")]

\* The state analysis_node returns for the text analyze_facts gave it.
AnalysisState(st, result) ==
    [st EXCEPT !.analysis = result, !.step = CompleteStep("analysis")]

\* decision_node also clearing the analysis field.
DecisionState_clears_analysis(st, result) ==
    [st EXCEPT !.decision = result, !.analysis = "", !.step = CompleteStep("decision")]

\* The state decision_node returns for the text DecisionAgent.process gave it.
DecisionState(st, result) ==
    [st EXCEPT !.decision = result, !.step = CompleteStep("decision")]

\* perception_node.
PerceptionNode(r) ==
    /\ pc = "perception"
    /\ supersteps < RecursionLimit
    /\ LET p == perceive_input(state.question, r, session, now)
       IN  /\ session' = p.memory
           /\ state' = PerceptionState(state, p.result)
           /\ StageRan("perception", p.invoked, r)
    /\ pc' = "orchestrator"
    /\ UNCHANGED error

\* analysis_node. Its "import json" (inside the inner try, after the call of
\* analyze_facts) makes json a local name of the function, so the except branch
\* reached by an exception escaping analyze_facts fails at json.dumps with
\* UnboundLocalError: the node raises, workflow.invoke raises, run re-raises.
AnalysisNode(r) ==
    /\ pc = "analysis"
    /\ supersteps < RecursionLimit
    /\ LET a == analyze_facts(state.normalized_question, r, session, now,
                              state.project_id)
       IN  /\ session' = a.memory
           /\ state' = IF a.escaped THEN state
                       ELSE AnalysisState(state, a.result)
           /\ pc' = IF a.escaped THEN "raised" ELSE "orchestrator"
           /\ error' = IF a.escaped THEN "UnboundLocalError" ELSE error
           /\ StageRan("analysis", a.invoked, r)

\* decision_node.
DecisionNode(r) ==
    /\ pc = "decision"
    /\ supersteps < RecursionLimit
    /\ LET d == DecisionProcess(r, session, now)
       IN  /\ session' = d.memory
           /\ state' = DecisionState(state, d.result)
           /\ StageRan("decision", TRUE, r)
    /\ pc' = "orchestrator"
    /\ UNCHANGED error

\* orchestrator_node followed by the conditional edge route_to_next_step.
\* fails: the body of the node's try block raised (the import or the
\* construction of the OrchestratorAgent), so the except branch wrote the step.
OrchestratorNode(fails) ==
    /\ pc = "orchestrator"
    /\ supersteps < RecursionLimit
    /\ LET st == [state EXCEPT !.step = OrchestratorProcess(state)]
           decided == IF fails
                      THEN [state EXCEPT !.step = "orchestrator_error"]
                      ELSE [state EXCEPT
                         !.step = CASE st.step = "analysis" -> "orchestrator_decided_analysis"
                                    [] st.step = "decision" -> "orchestrator_decided_decision"
                                    [] st.step = "done" -> "orchestrator_decided_done"]
           next == route_to_next_step(decided)
       IN  /\ state' = decided
           /\ pc' = IF next = "done" THEN "finishing" ELSE next
    /\ supersteps' = supersteps + 1
    /\ UNCHANGED <<verbose, session, now, execs, llmCalls, allRaised, apiCalls,
                   storage, saves, loaded, error, llms, used, other, got>>

\* workflow.invoke raises GraphRecursionError when the graph has not reached END
\* within the recursion limit; run prints it and re-raises.
RecursionError ==
    /\ pc \in {"perception", "analysis", "decision", "orchestrator"}
    /\ supersteps >= RecursionLimit
    /\ pc' = "raised"
    /\ error' = "GraphRecursionError"
    /\ UNCHANGED <<state, verbose, session, now, supersteps, execs, llmCalls,
                   allRaised, apiCalls, storage, saves, loaded, llms, used, other, got>>

\* MultiAgentWorkflow.run after workflow.invoke returned: the session is saved
\* inside the "if verbose" block, the completion is logged, the state returned.
RunFinish ==
    /\ pc = "finishing"
    /\ storage' = IF verbose THEN save_session(storage, session) ELSE storage
    /\ saves' = IF verbose THEN saves + 1 ELSE saves
    /\ pc' = "done"
    /\ UNCHANGED <<state, verbose, session, now, supersteps, execs, llmCalls,
                   allRaised, apiCalls, loaded, error, llms, used, other, got>>

\* A caller's LongTermMemory.load_session(session_id) after the run.
LoadSession(sid) ==
    /\ pc = "done"
    /\ loaded' = [call |-> sid, result |-> load_session(storage, sid)]
    /\ UNCHANGED <<pc, state, verbose, session, now, supersteps, execs, llmCalls,
                   allRaised, apiCalls, storage, saves, error, llms, used, other, got>>

\* A caller's own SessionMemory.add_entry on the run's session.
ApiAddEntry(agent, content, confidence) ==
    /\ pc = "orchestrator"
    /\ apiCalls < MaxApiCalls
    /\ session' = add_entry(session, now, agent, content, "AGENT", "steps",
                            confidence, FALSE)
    /\ apiCalls' = apiCalls + 1
    /\ now' = now + 1
    /\ UNCHANGED <<pc, state, verbose, supersteps, execs, llmCalls, allRaised,
                   storage, saves, loaded, error, llms, used, other, got>>

\* A caller's own SessionMemory.update_session_data on the run's session.
ApiUpdateSessionData(key, value) ==
    /\ pc = "orchestrator"
    /\ apiCalls < MaxApiCalls
    /\ session' = update_session_data(session, now, key, value)
    /\ apiCalls' = apiCalls + 1
    /\ now' = now + 1
    /\ UNCHANGED <<pc, state, verbose, supersteps, execs, llmCalls, allRaised,
                   storage, saves, loaded, error, llms, used, other, got>>

Next ==
    \/ \E q \in Questions, p \in ProjectIds, sc \in Scopes, v \in VerboseArgs :
          RunStart(q, p, sc, v)
    \/ \E r \in Outcomes(PerceptionResponses) : PerceptionNode(r)
    \/ \E r \in Outcomes(AnalysisResponses) : AnalysisNode(r)
    \/ \E r \in Outcomes(DecisionResponses) : DecisionNode(r)
    \/ \E fails \in BOOLEAN : OrchestratorNode(fails)
    \/ RecursionError
    \/ RunFinish
    \/ \E sid \in {session.session_id, LegacyId, MissingId} : LoadSession(sid)

Spec == Init /\ [][Next]_vars

\* The run as the graph engine schedules it: a node that can run does run.
FairSpec == Spec /\ WF_vars(Next)

\* The run with the caller's own calls on the session between the stages.
NextApi ==
    \/ \E q \in Questions, p \in ProjectIds : RunStart(q, p, "company", "True")
    \/ \E r \in Outcomes(PerceptionResponses) : PerceptionNode(r)
    \/ \E r \in Outcomes(AnalysisResponses) : AnalysisNode(r)
    \/ \E r \in Outcomes(DecisionResponses) : DecisionNode(r)
    \/ \E fails \in BOOLEAN : OrchestratorNode(fails)
    \/ RecursionError
    \/ RunFinish
    \/ \E sid \in {session.session_id, LegacyId, MissingId} : LoadSession(sid)
    \/ \E k \in {8, 1} : ApiAddEntry("caller", "note", k)
    \/ \E key \in {"analysis", "project_id"}, val \in {"note"} :
          ApiUpdateSessionData(key, val)

SpecApi == Init /\ [][NextApi]_vars

\* Another workflow is created: create_workflow calls set_llms, which rebinds
\* the module globals the nodes of every workflow read.
OtherCreateWorkflow ==
    /\ llms # OtherClients
    /\ llms' = OtherClients
    /\ UNCHANGED <<pc, state, verbose, session, now, supersteps, execs, llmCalls,
                   allRaised, apiCalls, storage, saves, loaded, error, used, other, got>>

\* Another run starts: its SessionMemory() reads the clock for its session_id.
OtherRunStart ==
    /\ other = NoSession
    /\ other' = NewSessionMemory(now)
    /\ now' = now + 1
    /\ UNCHANGED <<pc, state, verbose, session, supersteps, execs, llmCalls,
                   allRaised, apiCalls, storage, saves, loaded, error, llms, used, got>>

\* The other run ends and saves its session.
OtherRunSave ==
    /\ other # NoSession
    /\ storage' = save_session(storage, other)
    /\ UNCHANGED <<pc, state, verbose, session, now, supersteps, execs, llmCalls,
                   allRaised, apiCalls, saves, loaded, error, llms, used, other, got>>

\* The run next to another workflow and another run of the same process.
NextTwo ==
    \/ \E q \in Questions, p \in ProjectIds : RunStart(q, p, "company", "True")
    \/ \E r \in Outcomes(PerceptionResponses) : PerceptionNode(r)
    \/ \E r \in Outcomes(AnalysisResponses) : AnalysisNode(r)
    \/ \E r \in Outcomes(DecisionResponses) : DecisionNode(r)
    \/ \E fails \in BOOLEAN : OrchestratorNode(fails)
    \/ RecursionError
    \/ RunFinish
    \/ \E sid \in {session.session_id, LegacyId, MissingId} : LoadSession(sid)
    \/ OtherCreateWorkflow
    \/ OtherRunStart
    \/ OtherRunSave

SpecTwo == Init /\ [][NextTwo]_vars

----------------------------------------------------------------------------
(* Properties *)

\* C1: for every combination of stage outcomes a run ends at END after at most
\* three stage executions: perception, analysis and decision each execute at
\* most once, and the run does not end with an exception instead.
C1_AtMostThreeStageExecutions ==
    /\ \A st \in Stages : execs[st] <= 1
    /\ pc # "raised"

\* C2: every execution of a stage appends exactly one entry to the run's
\* SessionMemory and nothing else changes the number of entries, so the log
\* always holds as many entries as stages have executed.
C2_OneEntryPerStageExecution == Len(session.entries) = ExecsTotal

\* C3: the session log is append-only: across every step (a stage execution,
\* add_entry, update_session_data, the save and the loads) the entries before
\* the step are a prefix of the entries after it.
C3_AppendOnly == [][IsPrefix(session.entries, session'.entries)]_vars

C3_Witness ==
    /\ pc = "done"
    /\ apiCalls = 1
    /\ Len(session.entries) >= 4
    /\ \E i \in 1..Len(session.entries) : session.entries[i].agent = "caller"

\* C4: while every llm.invoke of the run has raised, every entry of the log has
\* confidence 0.1, and a run in which every llm.invoke raises reaches the
\* terminal state.
C4_AllInvocationsRaise ==
    /\ [](allRaised =>
            \A i \in 1..Len(session.entries) : session.entries[i].confidence = 1)
    /\ <>(~allRaised \/ pc = "done")

C4_Witness ==
    /\ pc = "done"
    /\ allRaised
    /\ \A st \in Stages : llmCalls[st] = 1
    /\ Len(session.entries) = 4

\* C5: run never raises to its caller: for every question, project_id, scope and
\* pattern of failures inside the stages it returns a final state.
C5_RunNeverRaises == error = None

\* C6: when a run terminates, intent, entities, normalized_question, analysis
\* and decision of the final state are all non-empty.
C6_AllFieldsPopulated ==
    pc = "done" =>
        /\ Truthy(state.intent)
        /\ state.entities # <<>>
        /\ Truthy(state.normalized_question)
        /\ Truthy(state.analysis)
        /\ Truthy(state.decision)

\* C7: in the final state of a completed run the analysis field and the
\* decision field both parse as JSON documents.
C7_AnalysisAndDecisionAreJson ==
    pc = "done" => ParsesAsJson(state.analysis) /\ ParsesAsJson(state.decision)

\* C8: round trip: load_session(session_id) after the run's save_session(session)
\* returns a session equal to the saved one in session_id, created_at,
\* last_updated, session_data and every entry, reasoning_pattern included.
C8_SaveLoadRoundTrip ==
    (saves >= 1 /\ loaded.result.cause # "not called"
                /\ loaded.call = session.session_id)
        => /\ loaded.result.returned = "session"
           /\ loaded.result.session = session

C8_Witness ==
    /\ saves = 1
    /\ loaded.call = session.session_id
    /\ loaded.result.returned = "session"
    /\ Len(loaded.result.session.entries) >= 3
    /\ \E i \in 1..Len(loaded.result.session.entries) :
          loaded.result.session.entries[i].reasoning_pattern = "TOT"

\* C9: loading a persisted session with an entry whose reasoning_pattern is no
\* known pattern fails with an error raised to the caller.
C9_UnknownPatternSurfaced ==
    loaded.result.cause = "ValueError" => loaded.result.raised

\* C10: a run that reaches the terminal state has had its session saved by
\* save_session exactly once, whatever its verbose setting.
C10_SavedExactlyOnce == pc = "done" => saves = 1

\* C11: a workflow created with one set of model clients calls exactly those
\* clients in all of its stages, also when another workflow is created before
\* or between its stage executions.
C11_OwnClientsOnly == used \subseteq {OwnClients}

\* C12: SessionMemory instances created for different runs always have
\* distinct session_ids, so no run saves under another run's storage key.
C12_DistinctSessionIds ==
    (pc # "idle" /\ other # NoSession) => other.session_id # session.session_id

\* C13: the recovery step returns, for every model text, a text that parses as
\* JSON: each text invoke_llm logs and hands on after recovery parses.
C13_RecoveryReturnsJson ==
    /\ \A c \in DecisionResponses \cup WhitespaceOnly :
          ParsesAsJson(validate_and_clean_json(c))
    /\ \A i \in 1..Len(session.entries) :
          (session.entries[i].agent = "Decision" /\ ~session.entries[i].metadata.error)
              => ParsesAsJson(session.entries[i].content)

C13_Witness ==
    /\ got["decision"] = "text"
    /\ \E i \in 1..Len(session.entries) :
          /\ session.entries[i].agent = "Decision"
          /\ session.entries[i].content = DECISION_FALLBACK_JSON

\* C14: the text recovery returns validates against the agent's schema: a
\* document that parses but fails the schema is never the recovered result
\* that invoke_llm logs and hands on.
C14_RecoveredValidates ==
    \A i \in 1..Len(session.entries) :
        (session.entries[i].agent = "Decision" /\ ~session.entries[i].metadata.error)
            => DecisionSchemaOk(session.entries[i].content)

\* C15: a stage whose model response was empty records exactly the canonical
\* fallback payload of its agent: the perception record, the analysis text and
\* the recovered decision text equal _get_fallback_json of the agent.
C15_EmptyGivesCanonicalFallback ==
    /\ got["perception"] = "empty"
          => session.entries[1].content = get_fallback_json("perception")
    /\ got["analysis"] = "empty"
          => state.analysis = get_fallback_json("analysis")
    /\ got["decision"] = "empty"
          => \E i \in 1..Len(session.entries) :
                /\ session.entries[i].agent = "Decision"
                /\ session.entries[i].content = get_fallback_json("decision")

\* C16: the confidence of a stage's entry reflects the recovery status of its
\* record: 1.0 validated, 0.6 cleaned, 0.1 fallback; the entry of a stage whose
\* model response was empty, so that a fallback was substituted, carries 0.1.
C16_ConfidenceReflectsStatus ==
    /\ \A i \in 1..Len(session.entries) :
          session.entries[i].confidence \in {10, 6, 1}
    /\ (got["perception"] = "empty") => session.entries[1].confidence = 1

\* C17: right after a stage ran, state.step is '<stage>_complete' only when
\* the stage's model call returned text; a stage whose model call raised or
\* came back empty, so that its record is a fallback, leaves '<stage>_error'.
C17_StepReflectsOutcome ==
    pc = "orchestrator" =>
        /\ \A st \in Stages :
              (state.step = CompleteStep(st)) => got[st] = "text"
        /\ \A st \in Stages :
              (got[st] \in {"raised", "empty"} /\ state.step \in StageSteps(st))
                  => state.step = ErrorStep(st)

\* C18: for each stage, the state written when llm.invoke raises equals the
\* state written when llm.invoke returns empty content.
C18_RaiseEqualsEmpty ==
    pc = "orchestrator" =>
        /\ (got["perception"] = "raised" /\ state.step \in StageSteps("perception"))
              => state = PerceptionState(state,
                           perceive_input(state.question, Returns(""), session, now).result)
        /\ (got["analysis"] = "raised" /\ state.step \in StageSteps("analysis"))
              => state = AnalysisState(state,
                           analyze_facts(state.normalized_question, Returns(""),
                                         session, now, state.project_id).result)
        /\ (got["decision"] = "raised" /\ state.step \in StageSteps("decision"))
              => state = DecisionState(state,
                           DecisionProcess(Returns(""), session, now).result)

\* The deterministic rule on the state's fields: 'analysis' if analysis is
\* empty, else 'decision' if decision is empty, else 'done'.
FieldRule(st) ==
    IF ~Truthy(st.analysis) THEN "analysis"
    ELSE IF ~Truthy(st.decision) THEN "decision"
    ELSE "done"

\* The target the conditional edge chose, read back from the position of the run.
Routed == IF pc = "finishing" THEN "done" ELSE pc

\* C19: right after the orchestrator node, route_to_next_step returns one of
\* 'analysis', 'decision', 'done', the run follows it, and it equals the
\* deterministic rule on the state's fields, both when step records the
\* orchestrator's choice and when the node failed and left 'orchestrator_error'.
C19_RouteFollowsFieldRule ==
    pc \in {"analysis", "decision", "finishing"} =>
        /\ route_to_next_step(state) \in {"analysis", "decision", "done"}
        /\ route_to_next_step(state) = FieldRule(state)
        /\ Routed = FieldRule(state)

C19_Witness ==
    /\ state.step = "orchestrator_error"
    /\ pc = "decision"
    /\ Truthy(state.analysis)

\* The model outcomes that put a stage on one of its failure paths: the call
\* raises, the response is empty, it does not parse, or it fails the schema.
PerceptionFailures ==
    {Raises, Returns(""), Returns("   "), Returns(PROSE), Returns(P_PARTIAL)}

AnalysisFailures == {Raises, Returns(""), Returns("   ")}

DecisionFailures ==
    {Raises, Returns(""), Returns(PROSE), Returns(D_BRACES), Returns(D_INVALID)}

\* C20: each agent has a single fallback payload: whichever failure path a
\* stage takes (raised call, empty, unparseable or schema-failing response),
\* the payload it substitutes is the same.
C20_SingleFallbackPerAgent ==
    /\ pc = "perception" =>
          \A r1, r2 \in PerceptionFailures :
              perceive_input(state.question, r1, session, now).result
                  = perceive_input(state.question, r2, session, now).result
    /\ pc = "analysis" =>
          \A r1, r2 \in AnalysisFailures :
              analyze_facts(state.normalized_question, r1, session, now,
                            state.project_id).result
                  = analyze_facts(state.normalized_question, r2, session, now,
                                  state.project_id).result
    /\ pc = "decision" =>
          \A r1, r2 \in DecisionFailures :
              DecisionProcess(r1, session, now).result
                  = DecisionProcess(r2, session, now).result

\* The fields of the WorkflowState each node may change.
OwnFields(node) ==
    CASE node = "perception"   -> {"intent", "entities", "normalized_question", "step"}
      [] node = "analysis"     -> {"analysis", "step"}
      [] node = "decision"     -> {"decision", "step"}
      [] node = "orchestrator" -> {"step"}

\* C21: a step of a workflow node changes only that node's own fields of the
\* WorkflowState: perception intent, entities, normalized_question and step,
\* analysis analysis and step, decision decision and step, the orchestrator
\* step; question, project_id and scope are changed by no node.
C21_NodesChangeOwnFields ==
    [][(pc \in {"perception", "analysis", "decision", "orchestrator"}) =>
          \A f \in DOMAIN state :
              f \notin OwnFields(pc) => state'[f] = state[f]]_vars

C21_Witness ==
    /\ pc = "orchestrator"
    /\ state.step = "decision_complete"
    /\ state.intent = "team_optimization"
    /\ state.analysis = A_VALID
    /\ state.decision = D_VALID_DUMPED
    /\ state.project_id = None

\* C22: every execution of a perception, analysis or decision stage makes
\* exactly one llm.invoke call before the next stage is chosen, for every
\* input: each stage has made as many model calls as it has executed.
C22_OneInvocationPerExecution ==
    \A st \in Stages : llmCalls[st] = execs[st]

\* C23: perception executes first and exactly once; the stage executed right
\* after perception is analysis whatever perception produced; and the decision
\* stage never starts while the analysis field is empty.
C23_StageOrdering ==
    /\ [](/\ execs["perception"] <= 1
          /\ (execs["analysis"] + execs["decision"] > 0) => execs["perception"] = 1
          /\ (pc \in {"analysis", "decision", "orchestrator", "finishing", "done"})
                => execs["perception"] = 1
          /\ execs["analysis"] = 0 => execs["decision"] = 0
          /\ pc = "decision" => Truthy(state.analysis))
    /\ [][(pc = "orchestrator" /\ state.step \in StageSteps("perception"))
             => pc' = "analysis"]_vars

C23_Witness ==
    /\ pc = "decision"
    /\ got["perception"] = "raised"
    /\ execs = [perception |-> 1, analysis |-> 1, decision |-> 0]
    /\ Truthy(state.analysis)

\* The entry the stage that just ran logged last.
LastEntry == session.entries[Len(session.entries)]

\* C24: right after a stage ran, the content of the memory entry it logged is
\* the payload the stage wrote into the WorkflowState: the perception record
\* behind intent, entities and normalized_question, the text in state.analysis,
\* the text in state.decision, on success and failure paths alike.
C24_EntryContentIsPayload ==
    (pc = "orchestrator" /\ Len(session.entries) > 0) =>
        /\ state.step \in StageSteps("perception")
              => state = PerceptionState(state, LastEntry.content)
        /\ state.step \in StageSteps("analysis")
              => LastEntry.content = state.analysis
        /\ state.step \in StageSteps("decision")
              => LastEntry.content = state.decision

\* C25: when a run terminates, the session's session_data holds the final
\* state's analysis and decision, also when the analysis or decision stage
\* failed.
C25_SessionDataIsFinalState ==
    pc \in {"finishing", "done"} =>
        /\ session.session_data.analysis = state.analysis
        /\ session.session_data.decision = state.decision

\* C26: the project context given to a run is stored in its session memory:
\* after run(question, project_id=p, scope=s) with non-empty p,
\* SessionMemory.get returns p and s, and after perception handled a
\* project-analysis question it returns the project_id and the required_skills
\* perception extracted.
C26_ProjectContextStored ==
    /\ (pc # "idle" /\ Truthy(state.project_id) /\ ~is_project_analysis(state.question))
          => /\ SessionGet(session, "project_id") = state.project_id
             /\ SessionGet(session, "scope") = state.scope
    /\ (is_project_analysis(state.question) /\ execs["perception"] = 1)
          => /\ SessionGet(session, "project_id") = "proj_005"
             /\ SessionGet(session, "required_skills") = <<>>

\* C27: for a run with a project_id and a non-empty normalized question, the
\* analysis stage invokes the model after fetching the project data, and the
\* analysis it writes is the model's response, not an error message.
C27_ProjectAnalysisInvokesModel ==
    (/\ pc = "orchestrator"
     /\ state.step \in StageSteps("analysis")
     /\ Truthy(state.project_id)
     /\ Truthy(state.normalized_question) /\ Strip(state.normalized_question) # "") =>
        /\ got["analysis"] # "none"
        /\ llmCalls["analysis"] = execs["analysis"]
        /\ state.analysis # ANALYSIS_NO_QUESTION
        /\ state.analysis = ANALYSIS_ERROR => got["analysis"] = "raised"

\* The part of a perception record the claim compares.
PerceptionCore(rec) ==
    [ intent |-> rec.intent, entities |-> rec.entities,
      normalized_question |-> rec.normalized_question ]

\* C28: for the same user input and the same model response, perceive_input
\* called with session_memory=None returns the same intent, entities and
\* normalized_question as the call with a session memory.
C28_SameRecordWithoutMemory ==
    pc = "perception" =>
        \A r \in Outcomes(PerceptionResponses) :
            PerceptionCore(perceive_input_no_memory(state.question, r))
                = PerceptionCore(perceive_input(state.question, r, session, now).result)

\* C29: the workflow reaches END (route 'done') only in states where both
\* analysis and decision are non-empty: a run that has left the graph holds
\* neither an empty analysis nor an empty decision.
C29_EndsOnlyWhenComplete ==
    /\ [](pc \in {"finishing", "done"} =>
             Truthy(state.analysis) /\ Truthy(state.decision))
    /\ [][(pc = "orchestrator" /\ pc' = "finishing") =>
             Truthy(state'.analysis) /\ Truthy(state'.decision)]_vars

C29_Witness ==
    /\ pc = "done"
    /\ state.step = "orchestrator_error"
    /\ got["decision"] = "empty"
    /\ state.decision = D_FALLBACK_DUMPED
    /\ Truthy(state.analysis)

\* The index add_entry put into the id of an entry (the len(self.entries) part).
IdIndex(e) == e.id[2]

\* C30: within one SessionMemory the entry at (0-based) position i carries the
\* index i in its id, after any sequence of add_entry calls, so the ids of the
\* session's entries are pairwise distinct.
C30_EntryIdsCarryPosition ==
    /\ \A i \in 1..Len(session.entries) : IdIndex(session.entries[i]) = i - 1
    /\ \A i, j \in 1..Len(session.entries) :
          i # j => session.entries[i].id # session.entries[j].id

C30_Witness ==
    /\ Len(session.entries) >= 5
    /\ \E i, j \in 1..Len(session.entries) :
          /\ i < j
          /\ session.entries[i].agent = "analysis"
          /\ session.entries[j].agent = "analysis"
    /\ \E i \in 1..Len(session.entries) : session.entries[i].agent = "caller"

====
